---------------------------- MODULE Spec2Model ----------------------------
(***************************************************************************)
(* Model of the microservice bottleneck detector (package mbd and the      *)
(* scripts that drive it).                                                 *)
(*                                                                         *)
(*   - GraphBuilder.build_graph       mbd/graph/graph_builder.py           *)
(*   - GraphAnalyzer.max_flow/min_cut mbd/graph/analyzer.py                *)
(*   - sliding_windows, records_in_window, analyze_time_windows,           *)
(*     aggregate_bottlenecks          mbd/graph/bottleneck.py              *)
(*   - RuntimeAnalyzer and the HTTP handlers  scripts/runtime_server.py    *)
(*                                                                         *)
(* Time is counted in ticks, TicksPerSecond ticks to the second, so that   *)
(* timestamps less than a second apart exist.  Python floats are modelled  *)
(* as exact rationals <<numerator, denominator>> in lowest terms.          *)
(***************************************************************************)
EXTENDS Integers, Sequences, FiniteSets, TLC

VARIABLES
    records,          \* batch: the parsed record list handed to analyze_time_windows
    source,           \* --source
    sink,             \* --sink
    window_seconds,   \* --window
    step_seconds,     \* --step
    capacity_attr,    \* --capacity
    top_k,            \* top_k handed to aggregate_bottlenecks
    pc,               \* batch: position of the pipeline
    current,          \* sliding_windows: the generator's loop variable (ticks)
    results,          \* analyze_time_windows: the result list built so far
    agg,              \* the list aggregate_bottlenecks returned
    self_records,     \* live: RuntimeAnalyzer.records, the shared log
    offset,           \* live: lines of the log file tail_loop has read
    line,             \* tail_loop: the line it read last
    latest_windows,   \* live: RuntimeAnalyzer.latest_windows
    latest_bottlenecks, \* live: RuntimeAnalyzer.latest_bottlenecks
    latest_graph,     \* live: RuntimeAnalyzer.latest_graph (<<>> is None)
    apc,              \* live: position of analyze_loop
    cycle,            \* live: number of the analysis cycle in progress
    records_copy,     \* analyze_loop: its snapshot of the log
    windows,          \* analyze_loop: local
    top,              \* analyze_loop: local
    projection,       \* analyze_loop: the dict it builds for latest_graph
    published_by,     \* history: cycle that assigned each published field
    response,         \* live: the last HTTP response sent
    main_G,           \* mbd_main: G, the graph of the whole log
    main_flow_value,  \* mbd_main: flow_value of GraphAnalyzer.max_flow
    main_cut,         \* mbd_main: cut_value, S and T of GraphAnalyzer.min_cut
    main_bottlenecks  \* mbd_main: bottlenecks, the edges from S to T

mainVars == <<main_G, main_flow_value, main_cut, main_bottlenecks>>

liveVars == <<self_records, offset, line, latest_windows, latest_bottlenecks,
              latest_graph, apc, cycle, records_copy, windows, top,
              projection, published_by, response>>

vars == <<records, source, sink, window_seconds, step_seconds, capacity_attr,
          top_k, pc, current, results, agg, liveVars, mainVars>>

-----------------------------------------------------------------------------
(* Bounds of the model.                                                    *)

\* ticks per second (the resolution of the modelled timestamps)
TicksPerSecond == 2

\* longest record list of the exhaustive inputs
MaxRecords == 2

\* largest timestamp, in ticks, of the exhaustive inputs
MaxTick == 2

\* the loop of analyze_time_windows is followed for at most this many windows
MaxResults == 4

\* longest list of window results handed to aggregate_bottlenecks on its own
MaxAggWindows == 3

\* largest top_k handed to aggregate_bottlenecks on its own
MaxTopK == 3

\* lines appended to the log file while the server runs
MaxLines == 3

\* analysis cycles followed
MaxCycles == 3

-----------------------------------------------------------------------------
(* Exact rationals standing for Python floats.                             *)

Abs(n) == IF n < 0 THEN -n ELSE n

RECURSIVE Gcd(_, _)
Gcd(a, b) == IF b = 0 THEN a ELSE Gcd(b, a % b)

Lcm(a, b) == (a * b) \div Gcd(a, b)

\* n/d in lowest terms, d > 0
Rat(n, d) == LET g == Gcd(Abs(n), d) IN <<n \div g, d \div g>>

Zero == Rat(0, 1)

RatAdd(a, b) == Rat(a[1] * b[2] + b[1] * a[2], a[2] * b[2])

RatLess(a, b) == a[1] * b[2] < b[1] * a[2]

RatLeq(a, b) == a[1] * b[2] <= b[1] * a[2]

RECURSIVE SeqSum(_)
SeqSum(s) == IF s = <<>> THEN 0 ELSE Head(s) + SeqSum(Tail(s))

RECURSIVE RatSum(_)
RatSum(s) == IF s = <<>> THEN Zero ELSE RatAdd(Head(s), RatSum(Tail(s)))

Range(s) == {s[i] : i \in 1..Len(s)}

SetMin(S) == CHOOSE x \in S : \A y \in S : x <= y

SetMax(S) == CHOOSE x \in S : \A y \in S : x >= y

\* the position of the first occurrence of x in s (0 when absent)
IndexOf(s, x) == IF x \in Range(s) THEN SetMin({i \in 1..Len(s) : s[i] = x}) ELSE 0

\* s without repetitions, keeping each element's first occurrence
RECURSIVE Dedup(_)
Dedup(s) ==
    IF s = <<>> THEN <<>>
    ELSE LET front == Dedup(SubSeq(s, 1, Len(s) - 1))
             last  == s[Len(s)]
         IN IF last \in Range(front) THEN front ELSE Append(front, last)

RECURSIVE Flatten(_)
Flatten(ss) == IF ss = <<>> THEN <<>> ELSE Head(ss) \o Flatten(Tail(ss))

-----------------------------------------------------------------------------
(* Timestamps.  A record's timestamp string is modelled by the instant it  *)
(* denotes, in ticks; an unparseable string by a negative number.          *)

\* datetime.fromisoformat succeeds on the string
Parseable(ts) == ts >= 0

\* parse_iso_z: the instant, defined when Parseable
parse_iso_z(ts) == ts

-----------------------------------------------------------------------------
(* GraphBuilder.build_graph.  The nx.DiGraph is the record                 *)
(*   nodes : node names in insertion order                                 *)
(*   edges : <<u, v>> pairs in insertion order                             *)
(*   times, count, avg_latency, throughput, capacity_latency,              *)
(*   capacity_throughput, capacity : the edge attributes, by edge          *)
(*   load, in_throughput, out_throughput : the node attributes, by node    *)

\* first loop: the timestamps that parse (the others are ignored)
BuildTimestamps(recs) ==
    {parse_iso_z(recs[i].ts) : i \in {j \in 1..Len(recs) : Parseable(recs[j].ts)}}

\* the time span as it would be with a floor: max(duration, 1.0)
BuildDuration_floor(recs) ==
    LET timestamps == BuildTimestamps(recs)
    IN IF timestamps # {}
       THEN LET d == SetMax(timestamps) - SetMin(timestamps)
            IN IF d <= TicksPerSecond THEN Rat(1, 1) ELSE Rat(d, TicksPerSecond)
       ELSE Rat(1, 1)

\* the observed time span in seconds, with the fallback of 1.0
BuildDuration(recs) ==
    LET timestamps == BuildTimestamps(recs)
    IN IF timestamps # {}
       THEN LET d == SetMax(timestamps) - SetMin(timestamps)
            IN IF d <= 0 THEN Rat(1, 1) ELSE Rat(d, TicksPerSecond)
       ELSE Rat(1, 1)

\* G.add_edge in record order: one edge per ordered (src, dst) pair
BuildEdges(recs) == Dedup([i \in 1..Len(recs) |-> <<recs[i].src, recs[i].dst>>])

\* nodes in the order add_edge creates them
BuildNodes(recs) ==
    Dedup(Flatten([i \in 1..Len(recs) |-> <<recs[i].src, recs[i].dst>>]))

\* G[src][dst]["times"]: the latencies of the edge's records, in record order
BuildTimes(recs, e) ==
    LET mine == SelectSeq(recs, LAMBDA r : <<r.src, r.dst>> = e)
    IN [i \in 1..Len(mine) |-> mine[i].lat]

\* the count as it would be without "count += 1" for an edge met again
BuildCount_not_incremented(recs, e) == 1

\* G[src][dst]["count"]
BuildCount(recs, e) ==
    Cardinality({i \in 1..Len(recs) : <<recs[i].src, recs[i].dst>> = e})

\* avg = sum(times) / len(times)
AvgLatency(times) == Rat(SeqSum(times), Len(times))

\* throughput = count / duration
Throughput(count, duration) == Rat(count * duration[2], duration[1])

\* capacity_latency = 1.0 / avg if avg > 0 else 0.0
CapacityLatency(avg) == IF RatLess(Zero, avg) THEN Rat(avg[2], avg[1]) ELSE Zero

\* the default as it would be if the latency-derived capacity came first
DefaultCapacity_latency_first(throughput, capacity_latency) ==
    IF RatLess(Zero, capacity_latency) THEN capacity_latency ELSE throughput

\* capacity = throughput if throughput > 0 else capacity_latency
DefaultCapacity(throughput, capacity_latency) ==
    IF RatLess(Zero, throughput) THEN throughput ELSE capacity_latency

\* the sum as it would be if a call of a service to itself were left out
InThroughput_no_self_loop(edges, thr, n) ==
    RatSum([i \in 1..Len(edges) |->
              IF edges[i][2] = n /\ edges[i][1] # n THEN thr[edges[i]] ELSE Zero])

\* for u, v in G.in_edges(n): in_throughput += G[u][v].get("throughput", 0.0)
InThroughput(edges, thr, n) ==
    RatSum([i \in 1..Len(edges) |->
              IF edges[i][2] = n THEN thr[edges[i]] ELSE Zero])

\* for u, v in G.out_edges(n): out_throughput += G[u][v].get("throughput", 0.0)
OutThroughput(edges, thr, n) ==
    RatSum([i \in 1..Len(edges) |->
              IF edges[i][1] = n THEN thr[edges[i]] ELSE Zero])

build_graph(recs) ==
    LET edges    == BuildEdges(recs)
        nodes    == BuildNodes(recs)
        E        == Range(edges)
        N        == Range(nodes)
        duration == BuildDuration(recs)
        times    == [e \in E |-> BuildTimes(recs, e)]
        count    == [e \in E |-> BuildCount(recs, e)]
        avg      == [e \in E |-> AvgLatency(times[e])]
        thr      == [e \in E |-> Throughput(count[e], duration)]
        caplat   == [e \in E |-> CapacityLatency(avg[e])]
        inthr    == [n \in N |-> InThroughput(edges, thr, n)]
        outthr   == [n \in N |-> OutThroughput(edges, thr, n)]
    IN [nodes               |-> nodes,
        edges               |-> edges,
        times               |-> times,
        count               |-> count,
        avg_latency         |-> avg,
        throughput          |-> thr,
        capacity_latency    |-> caplat,
        capacity_throughput |-> thr,
        capacity            |-> [e \in E |-> DefaultCapacity(thr[e], caplat[e])],
        in_throughput       |-> inthr,
        out_throughput      |-> outthr,
        load                |-> [n \in N |-> RatAdd(inthr[n], outthr[n])]]

-----------------------------------------------------------------------------
(* GraphAnalyzer.max_flow and GraphAnalyzer.min_cut hand the graph to      *)
(* networkx (nx.maximum_flow, nx.minimum_cut).  The library is modelled as *)
(* what it is, an augmenting maximum-flow solver on the residual network:  *)
(*   - the residual network leaves out self-loops and edges whose capacity *)
(*     is not positive; an edge without the capacity attribute is          *)
(*     unbounded;                                                          *)
(*   - it raises when source or sink is not a node, when they are the same *)
(*     node, and when an unbounded path joins them;                        *)
(*   - which augmenting paths a run takes is the library's own business:   *)
(*     every maximal augmentation is a possible run;                       *)
(*   - minimum_cut drops the saturated arcs and returns as second set the  *)
(*     nodes from which the sink can still be reached, as first set the    *)
(*     other nodes, and as value the flow value of its own run.            *)

\* the edge attributes build_graph sets that hold a capacity
HasCapacity(attr) == attr \in {"capacity", "capacity_throughput", "capacity_latency"}

\* the edges the residual network keeps
EdgeList(G, attr) ==
    {e \in Range(G.edges) :
        /\ e[1] # e[2]
        /\ HasCapacity(attr) => RatLess(Zero, G[attr][e])}

RECURSIVE LcmOver(_)
LcmOver(S) ==
    IF S = {} THEN 1
    ELSE LET x == CHOOSE y \in S : TRUE IN Lcm(x, LcmOver(S \ {x}))

\* the common denominator of the capacities
Scale(G, attr) ==
    IF HasCapacity(attr) THEN LcmOver({G[attr][e][2] : e \in EdgeList(G, attr)}) ELSE 1

\* the residual network: arcs (each edge and its reverse) and their capacities,
\* as integers over the common denominator
build_residual_network(G, attr) ==
    LET E    == EdgeList(G, attr)
        arcs == E \cup {<<e[2], e[1]>> : e \in E}
        D    == Scale(G, attr)
    IN [nodes |-> Range(G.nodes),
        arcs  |-> arcs,
        scale |-> D,
        cap   |-> [a \in arcs |->
                     IF a \notin E THEN 0
                     ELSE IF HasCapacity(attr)
                          THEN G[attr][a][1] * (D \div G[attr][a][2])
                          ELSE 1]]

\* the nodes reachable from the nodes of `from` along the arcs of `step`
RECURSIVE Closure(_, _)
Closure(from, step) ==
    LET more == from \cup {a[2] : a \in {b \in step : b[1] \in from}}
    IN IF more = from THEN from ELSE Closure(more, step)

\* detect_unboundedness: a path of unbounded edges from s to t
Unbounded(G, s, t, attr) ==
    /\ ~HasCapacity(attr)
    /\ t \in Closure({s}, EdgeList(G, attr))

\* what makes the solver raise
SolverRaises(G, s, t, attr) ==
    \/ s \notin Range(G.nodes)
    \/ t \notin Range(G.nodes)
    \/ s = t
    \/ Unbounded(G, s, t, attr)

\* the arcs with residual capacity left (not saturated)
Unsaturated(R, x) == {a \in R.arcs : x[a] < R.cap[a]}

\* the simple paths from the end of p to t along unsaturated arcs
RECURSIVE PathsFrom(_, _, _, _)
PathsFrom(R, x, p, t) ==
    IF p[Len(p)] = t THEN {p}
    ELSE UNION {PathsFrom(R, x, Append(p, a[2]), t) :
                  a \in {b \in Unsaturated(R, x) :
                           b[1] = p[Len(p)] /\ b[2] \notin Range(p)}}

AugmentingPaths(R, x, s, t) == PathsFrom(R, x, <<s>>, t)

PathArcs(p) == {<<p[i], p[i + 1]>> : i \in 1..(Len(p) - 1)}

\* push the bottleneck residual capacity along the path
Augment(R, x, p) ==
    LET delta == SetMin({R.cap[a] - x[a] : a \in PathArcs(p)})
    IN [a \in R.arcs |->
          IF a \in PathArcs(p) THEN x[a] + delta
          ELSE IF <<a[2], a[1]>> \in PathArcs(p) THEN x[a] - delta
          ELSE x[a]]

\* every flow a run of the solver can end with
RECURSIVE FinalFlows(_, _, _, _)
FinalFlows(R, x, s, t) ==
    LET P == AugmentingPaths(R, x, s, t)
    IN IF P = {} THEN {x}
       ELSE UNION {FinalFlows(R, Augment(R, x, p), s, t) : p \in P}

RECURSIVE SumOver(_, _)
SumOver(S, f) ==
    IF S = {} THEN 0
    ELSE LET a == CHOOSE b \in S : TRUE IN f[a] + SumOver(S \ {a}, f)

\* R.graph["flow_value"]: the net flow into the sink
FlowValue(R, x, t) ==
    Rat(SumOver({a \in R.arcs : a[2] = t}, x), R.scale)

\* the runs of the solver on G: the flows it can end with
SolverRuns(G, s, t, attr) ==
    LET R == build_residual_network(G, attr)
    IN {[R |-> R, x |-> x] : x \in FinalFlows(R, [a \in R.arcs |-> 0], s, t)}

\* max_flow as it would be if it did not hand capacity_attr on to the solver
max_flow_default_attr(G, s, t, attr) ==
    {FlowValue(run.R, run.x, t) : run \in SolverRuns(G, s, t, "capacity")}

\* GraphAnalyzer.max_flow: the values a call can return (flow_dict is not used
\* by any caller); defined when the solver does not raise
max_flow(G, s, t, attr) ==
    {FlowValue(run.R, run.x, t) : run \in SolverRuns(G, s, t, attr)}

\* the partition as the textbook has it: first set the nodes the source still
\* reaches in the residual network, second set the others
CutPartition_from_source(G, run, s, t) ==
    LET reachable == Closure({s}, Unsaturated(run.R, run.x))
    IN [S |-> reachable, T |-> Range(G.nodes) \ reachable]

\* the partition as it would be if the saturated arcs were not taken out
CutPartition_all_arcs(G, run, s, t) ==
    LET non_reachable == Closure({t}, {<<a[2], a[1]>> : a \in run.R.arcs})
    IN [S |-> Range(G.nodes) \ non_reachable, T |-> non_reachable]

\* nx.minimum_cut's partition for a run
CutPartition(G, run, s, t) ==
    LET live == Unsaturated(run.R, run.x)
        non_reachable == Closure({t}, {<<a[2], a[1]>> : a \in live})
    IN [S |-> Range(G.nodes) \ non_reachable, T |-> non_reachable]

\* GraphAnalyzer.min_cut: the (cut_value, (S, T)) a call can return
min_cut(G, s, t, attr) ==
    {[cut_value |-> FlowValue(run.R, run.x, t),
      S |-> CutPartition(G, run, s, t).S,
      T |-> CutPartition(G, run, s, t).T] : run \in SolverRuns(G, s, t, attr)}

-----------------------------------------------------------------------------
(* mbd/graph/bottleneck.py                                                 *)

\* the filter as it would be with "if ts <= end"
records_in_window_no_start(recs, start, end) ==
    SelectSeq(recs, LAMBDA r : parse_iso_z(r.ts) <= end)

\* the filter as it would be with "if start <= ts < end"
records_in_window_open_end(recs, start, end) ==
    SelectSeq(recs, LAMBDA r : start <= parse_iso_z(r.ts) /\ parse_iso_z(r.ts) < end)

\* the records whose timestamp lies in [start, end], in record order
records_in_window(recs, start, end) ==
    SelectSeq(recs, LAMBDA r : start <= parse_iso_z(r.ts) /\ parse_iso_z(r.ts) <= end)

\* the dict appended for an empty window, a window without source or sink, and
\* a window on which the solver raised: it has no "cut_value" key
Sentinel(start, end) == [start |-> start, end |-> end, flow |-> Zero, min_cut |-> <<>>]

\* the orders in which a Python set can be iterated
Orders(S) == {p \in [1..Cardinality(S) -> S] : Range(p) = S}

\* the loop as it would be without its test "if v in T"
CutEdges_no_filter(G, order, T) ==
    Flatten([i \in 1..Len(order) |-> SelectSeq(G.edges, LAMBDA e : e[1] = order[i])])

\* for u in S: for v in G.successors(u): if v in T: bottlenecks.append((u, v))
CutEdges(G, order, T) ==
    Flatten([i \in 1..Len(order) |->
               SelectSeq(G.edges, LAMBDA e : e[1] = order[i] /\ e[2] \in T)])

\* an exception on its way up
RAISED == [raised |-> TRUE]

\* lines 61-62 and 68-75: both solver calls, then the dict of a computed window
SolveWindow(G, s, t, start, end, attr) ==
    IF SolverRaises(G, s, t, attr) THEN {RAISED}
    ELSE UNION {{[start     |-> start,
                  end       |-> end,
                  flow      |-> flow_value,
                  min_cut   |-> CutEdges(G, order, cut.T),
                  cut_value |-> cut.cut_value] :
                     flow_value \in max_flow(G, s, t, attr),
                     order \in Orders(cut.S)} :
                cut \in min_cut(G, s, t, attr)}

\* the two calls as they would be outside any try
TryExcept_absent(outcomes, fallback) == outcomes

\* try: ... except Exception: append the sentinel
TryExcept(outcomes, fallback) ==
    {IF o = RAISED THEN fallback ELSE o : o \in outcomes}

\* one pass of the loop body of analyze_time_windows: the dicts it can append
\* (RAISED: an exception leaves the loop)
WindowResults(recs, s, t, start, end, attr) ==
    LET window_records == records_in_window(recs, start, end)
        G == build_graph(window_records)
    IN IF window_records = <<>> THEN {Sentinel(start, end)}
       ELSE IF s \notin Range(G.nodes) \/ t \notin Range(G.nodes)
            THEN {Sentinel(start, end)}
       ELSE TryExcept(SolveWindow(G, s, t, start, end, attr), Sentinel(start, end))

\* the loop as it would be with "while current < end"
LoopCondition_strict(cur, end) == cur < end

\* while current <= end
LoopCondition(cur, end) == cur <= end

\* the window end as it would be if it were cut back to the last timestamp
WindowEnd_clipped(cur, seconds) ==
    LET last == SetMax({records[i].ts : i \in 1..Len(records)})
    IN IF cur + seconds * TicksPerSecond > last THEN last
       ELSE cur + seconds * TicksPerSecond

\* window_end = current + timedelta(seconds=window_seconds)
WindowEnd(cur, seconds) == cur + seconds * TicksPerSecond

\* current = current + timedelta(seconds=step_seconds)
NextStart(cur, seconds) == cur + seconds * TicksPerSecond

\* w.get("min_cut", [])
MinCutOf(w) == IF "min_cut" \in DOMAIN w THEN w.min_cut ELSE <<>>

\* for w in window_results: for e in w.get("min_cut", []): every edge met
AllCutEdges(window_results) ==
    Flatten([i \in 1..Len(window_results) |-> MinCutOf(window_results[i])])

\* counter: the edges in the order they are first met
CounterKeys(window_results) == Dedup(AllCutEdges(window_results))

\* the count as it would be with "counter[e] = counter.get(e, 1) + 1"
CounterValue_from_one(window_results, e) ==
    LET all == AllCutEdges(window_results)
    IN 1 + Cardinality({i \in 1..Len(all) : all[i] = e})

\* counter[e] = counter.get(e, 0) + 1, once for every time e is met
CounterValue(window_results, e) ==
    LET all == AllCutEdges(window_results)
    IN Cardinality({i \in 1..Len(all) : all[i] = e})

\* the sort as it would be if equal counts did not keep their order
RECURSIVE SortedDesc_unstable(_)
SortedDesc_unstable(items) ==
    IF items = <<>> THEN <<>>
    ELSE LET front == SortedDesc_unstable(SubSeq(items, 1, Len(items) - 1))
             last  == items[Len(items)]
             keep  == Cardinality({i \in 1..Len(front) : front[i][2] > last[2]})
         IN SubSeq(front, 1, keep) \o <<last>> \o SubSeq(front, keep + 1, Len(front))

\* sorted(items, key=count, reverse=True): a stable sort, largest count first
RECURSIVE SortedDesc(_)
SortedDesc(items) ==
    IF items = <<>> THEN <<>>
    ELSE LET front == SortedDesc(SubSeq(items, 1, Len(items) - 1))
             last  == items[Len(items)]
             keep  == Cardinality({i \in 1..Len(front) : front[i][2] >= last[2]})
         IN SubSeq(front, 1, keep) \o <<last>> \o SubSeq(front, keep + 1, Len(front))

\* items[:k]
PySlice(items, k) ==
    IF k >= 0 THEN SubSeq(items, 1, IF k < Len(items) THEN k ELSE Len(items))
    ELSE SubSeq(items, 1, Len(items) + k)

aggregate_bottlenecks(window_results, k) ==
    LET keys  == CounterKeys(window_results)
        items == [i \in 1..Len(keys) |-> <<keys[i], CounterValue(window_results, keys[i])>>]
    IN PySlice(SortedDesc(items), k)

-----------------------------------------------------------------------------
(* RuntimeAnalyzer.__init__: the live state right after construction.      *)

\* no cycle has assigned any published field yet
NeverPublished == [windows |-> 0, bottlenecks |-> 0, graph |-> 0]

NoResponse == [route |-> "", status |-> 0, body |-> <<>>]

\* tail_loop has not read any line yet
NoLine == [row |-> "", rec |-> [ts |-> 0, src |-> "", dst |-> "", lat |-> 0]]

LiveConstructed ==
    /\ self_records = <<>>
    /\ offset = 0
    /\ line = NoLine
    /\ latest_windows = <<>>
    /\ latest_bottlenecks = <<>>
    /\ latest_graph = <<>>
    /\ apc = "sleep"
    /\ cycle = 0
    /\ records_copy = <<>>
    /\ windows = <<>>
    /\ top = <<>>
    /\ projection = <<>>
    /\ published_by = NeverPublished
    /\ response = NoResponse

\* mbd_main has not assigned any of its variables yet
MainNotRun ==
    /\ main_G = build_graph(<<>>)
    /\ main_flow_value = Zero
    /\ main_cut = [cut_value |-> Zero, S |-> {}, T |-> {}]
    /\ main_bottlenecks = <<>>

-----------------------------------------------------------------------------
(* The inputs of the batch pipeline.                                       *)

\* the calls of the exhaustive logs
Calls == {<<"A", "B">>, <<"B", "C">>, <<"A", "C">>}

\* the latencies of the exhaustive logs' calls
Latencies == {10, 20}

Rec(ts, src, dst, lat) == [ts |-> ts, src |-> src, dst |-> dst, lat |-> lat]

RecordUniverse ==
    {Rec(ts, c[1], c[2], lat) : ts \in 0..MaxTick, c \in Calls, lat \in Latencies}

\* every log of at most MaxRecords records
ExhaustiveLogs == UNION {[1..n -> RecordUniverse] : n \in 0..MaxRecords}

Sec(n) == n * TicksPerSecond

\* logs with more records than the exhaustive ones reach
ScenarioLogs ==
    { \* a chain whose first edge is the narrow one
      <<Rec(0, "A", "B", 10), Rec(Sec(1), "B", "C", 20), Rec(Sec(1), "B", "C", 20)>>,
      \* a chain whose last edge is the narrow one
      <<Rec(0, "A", "B", 10), Rec(0, "A", "B", 20), Rec(Sec(1), "B", "C", 20)>>,
      \* the same edge in two windows, then a window without a path
      <<Rec(0, "A", "C", 10), Rec(Sec(1), "A", "C", 10), Rec(Sec(2), "C", "A", 10)>>,
      \* a diamond with a cross edge: A->B, A->D, B->D, B->C, D->C
      <<Rec(0, "A", "B", 10), Rec(0, "A", "D", 10), Rec(0, "B", "D", 20),
        Rec(Sec(1), "B", "C", 10), Rec(Sec(1), "D", "C", 20)>>,
      \* an edge of latency zero
      <<Rec(0, "A", "B", 0), Rec(Sec(1), "B", "C", 10), Rec(Sec(1), "A", "C", 20)>>,
      \* one narrow edge, then two ways on
      <<Rec(0, "A", "B", 10), Rec(0, "B", "C", 10), Rec(0, "B", "D", 10),
        Rec(Sec(1), "D", "C", 10)>>,
      \* calls in both directions, and a call of a service to itself
      <<Rec(0, "A", "B", 10), Rec(0, "B", "A", 10), Rec(Sec(1), "B", "B", 10),
        Rec(Sec(1), "B", "C", 20)>>,
      \* a second without any call
      <<Rec(0, "A", "C", 10), Rec(Sec(2), "A", "C", 10)>>,
      \* a timestamp that does not parse
      <<Rec(0, "A", "C", 10), Rec(-1, "A", "C", 10)>> }

Sources == {"A"}

Sinks == {"A", "C"}

WindowLengths == 0..2

\* a step of 0 seconds never moves the window on
Steps == 0..2

CapacityAttrs == {"capacity", "capacity_throughput", "capacity_latency", "weight"}

\* top_k of run_bottleneck_analysis.py
BatchTopK == 20

-----------------------------------------------------------------------------
(* The batch pipeline: analyze_time_windows, then aggregate_bottlenecks.   *)

Init ==
    /\ \/ records \in ExhaustiveLogs /\ top_k = BatchTopK
       \/ records \in ScenarioLogs /\ top_k \in {1, BatchTopK}
    /\ source \in Sources
    /\ sink \in Sinks
    /\ window_seconds \in WindowLengths
    /\ step_seconds \in Steps
    /\ capacity_attr \in CapacityAttrs
    /\ pc = "start"
    /\ current = 0
    /\ results = <<>>
    /\ agg = <<>>
    /\ LiveConstructed
    /\ MainNotRun

Times(recs) == {parse_iso_z(recs[i].ts) : i \in 1..Len(recs)}

\* sliding_windows up to its loop: no record, no window; a timestamp that does
\* not parse raises out of analyze_time_windows
SlidingStart ==
    /\ pc = "start"
    /\ IF records = <<>> THEN pc' = "aggregate" /\ current' = current
       ELSE IF \E i \in 1..Len(records) : ~Parseable(records[i].ts)
            THEN pc' = "raised" /\ current' = current
       ELSE pc' = "loop" /\ current' = SetMin(Times(records))
    /\ UNCHANGED <<records, source, sink, window_seconds, step_seconds,
                   capacity_attr, top_k, results, agg, liveVars, mainVars>>

\* one window: the generator yields (current, window_end) and the loop body
\* of analyze_time_windows appends its dict
AnalyzeWindow ==
    /\ pc = "loop"
    /\ Len(results) < MaxResults
    /\ LoopCondition(current, SetMax(Times(records)))
    /\ \E r \in WindowResults(records, source, sink, current,
                              WindowEnd(current, window_seconds), capacity_attr) :
          IF r = RAISED
          THEN pc' = "raised" /\ UNCHANGED <<results, current>>
          ELSE /\ results' = Append(results, r)
               /\ current' = NextStart(current, step_seconds)
               /\ pc' = pc
    /\ UNCHANGED <<records, source, sink, window_seconds, step_seconds,
                   capacity_attr, top_k, agg, liveVars, mainVars>>

\* the generator is exhausted: analyze_time_windows returns results
WindowsDone ==
    /\ pc = "loop"
    /\ ~LoopCondition(current, SetMax(Times(records)))
    /\ pc' = "aggregate"
    /\ UNCHANGED <<records, source, sink, window_seconds, step_seconds,
                   capacity_attr, top_k, current, results, agg, liveVars, mainVars>>

Aggregate ==
    /\ pc = "aggregate"
    /\ agg' = aggregate_bottlenecks(results, top_k)
    /\ pc' = "done"
    /\ UNCHANGED <<records, source, sink, window_seconds, step_seconds,
                   capacity_attr, top_k, current, results, liveVars, mainVars>>

Next == SlidingStart \/ AnalyzeWindow \/ WindowsDone \/ Aggregate

Spec == Init /\ [][Next]_vars

-----------------------------------------------------------------------------
(* aggregate_bottlenecks on its own: any list of window dicts whose        *)
(* min_cut lists hold no edge twice (the function reads no other key).     *)

\* the lists without repetition of at most two of the calls
CutLists ==
    {<<>>} \cup {<<c>> : c \in Calls}
           \cup {cd \in Calls \X Calls : cd[1] # cd[2]}

WindowLists ==
    UNION {[1..n -> {[min_cut |-> cl] : cl \in CutLists}] : n \in 0..MaxAggWindows}

InitAgg ==
    /\ results \in WindowLists
    /\ top_k \in 0..MaxTopK
    /\ pc = "aggregate"
    /\ records = <<>>
    /\ source = "A"
    /\ sink = "C"
    /\ window_seconds = 1
    /\ step_seconds = 1
    /\ capacity_attr = "capacity"
    /\ current = 0
    /\ agg = <<>>
    /\ LiveConstructed
    /\ MainNotRun

NextAgg == Aggregate

SpecAgg == InitAgg /\ [][NextAgg]_vars

-----------------------------------------------------------------------------
(* bin/mbd_main.py: the graph of the whole log, one max_flow, one min_cut, *)
(* then the edges from S to T.  "A" stands for the source and "C" for the  *)
(* sink the script names; capacity_attr is one of the three metrics its    *)
(* comment lists.  What it prints and draws is left out.                   *)

\* a record with the endpoints of the call (no function reads them)
WithEndpoints(rec, src_ep, dst_ep) ==
    [ts |-> rec.ts, src |-> rec.src, dst |-> rec.dst, lat |-> rec.lat,
     src_endpoint |-> src_ep, dst_endpoint |-> dst_ep]

\* logs the exhaustive ones do not reach
WholeLogs ==
    { \* the same pair of services called on different endpoints
      <<WithEndpoints(Rec(0, "A", "C", 10), "/a", "/x"),
        WithEndpoints(Rec(1, "A", "C", 20), "/b", "/y"),
        WithEndpoints(Rec(Sec(1), "B", "C", 10), "/a", "/x"),
        WithEndpoints(Rec(Sec(1), "A", "C", 10), "/a", "/x")>>,
      \* no timestamp parses
      <<Rec(0 - 1, "A", "B", 10), Rec(0 - 1, "B", "C", 20), Rec(0 - 1, "A", "B", 20)>>,
      \* no way from A to C, and a service D that C calls
      <<Rec(0, "C", "A", 10), Rec(Sec(1), "C", "D", 10), Rec(Sec(1), "A", "B", 10)>>,
      \* no way from A to C, and a call of latency zero into C
      <<Rec(0, "A", "B", 0), Rec(Sec(1), "D", "C", 0), Rec(Sec(1), "C", "B", 20)>>,
      \* a service that calls itself, within half a second
      <<Rec(0, "A", "A", 10), Rec(1, "A", "C", 10), Rec(1, "C", "C", 20)>> }

MainCapacityAttrs == {"capacity", "capacity_throughput", "capacity_latency"}

InitMain ==
    /\ records \in ExhaustiveLogs \cup ScenarioLogs \cup WholeLogs
    /\ source = "A"
    /\ sink = "C"
    /\ capacity_attr \in MainCapacityAttrs
    /\ pc = "main"
    /\ window_seconds = 0
    /\ step_seconds = 0
    /\ top_k = 0
    /\ current = 0
    /\ results = <<>>
    /\ agg = <<>>
    /\ LiveConstructed
    /\ MainNotRun

\* G = GraphBuilder.build_graph(records)
BuildGraph ==
    /\ pc = "main"
    /\ main_G' = build_graph(records)
    /\ pc' = "built"
    /\ UNCHANGED <<records, source, sink, window_seconds, step_seconds, capacity_attr,
                   top_k, current, results, agg, liveVars, main_flow_value, main_cut,
                   main_bottlenecks>>

\* flow_value, flow_dict = GraphAnalyzer.max_flow(...): nothing catches what
\* the solver raises
MaxFlow ==
    /\ pc = "built"
    /\ IF SolverRaises(main_G, source, sink, capacity_attr)
       THEN pc' = "main_raised" /\ main_flow_value' = main_flow_value
       ELSE /\ main_flow_value' \in max_flow(main_G, source, sink, capacity_attr)
            /\ pc' = "flowed"
    /\ UNCHANGED <<records, source, sink, window_seconds, step_seconds, capacity_attr,
                   top_k, current, results, agg, liveVars, main_G, main_cut,
                   main_bottlenecks>>

\* cut_value, (S, T) = GraphAnalyzer.min_cut(...)
MinCut ==
    /\ pc = "flowed"
    /\ main_cut' \in min_cut(main_G, source, sink, capacity_attr)
    /\ pc' = "cut"
    /\ UNCHANGED <<records, source, sink, window_seconds, step_seconds, capacity_attr,
                   top_k, current, results, agg, liveVars, main_G, main_flow_value,
                   main_bottlenecks>>

\* for u in S: for v in G.successors(u): if v in T: bottlenecks.append((u, v))
CollectBottlenecks ==
    /\ pc = "cut"
    /\ \E order \in Orders(main_cut.S) :
          main_bottlenecks' = CutEdges(main_G, order, main_cut.T)
    /\ pc' = "main_done"
    /\ UNCHANGED <<records, source, sink, window_seconds, step_seconds, capacity_attr,
                   top_k, current, results, agg, liveVars, main_G, main_flow_value, main_cut>>

NextMain == BuildGraph \/ MaxFlow \/ MinCut \/ CollectBottlenecks

SpecMain == InitMain /\ [][NextMain]_vars

-----------------------------------------------------------------------------
(* Live mode (scripts/runtime_server.py): tail_loop appends the records of *)
(* the lines written to the log file, analyze_loop analyses a snapshot of  *)
(* the log and publishes the outcome, the HTTP handlers read what is       *)
(* published.  A "with self.lock" block is one step; what a thread does    *)
(* outside the lock is a step of its own.                                  *)

\* top_k of the live aggregation
LiveTopK == 10

\* top[:5], the edges drawn in red
HighlightCount == 5

\* the whole of analyze_time_windows from the window starting at cur on:
\* every list of window dicts it can return, or that it raised
RECURSIVE WindowsFrom(_, _, _, _, _, _, _, _)
WindowsFrom(recs, s, t, seconds, step, attr, cur, last) ==
    IF ~LoopCondition(cur, last)
    THEN {[raised |-> FALSE, windows |-> <<>>]}
    ELSE LET heads == WindowResults(recs, s, t, cur, WindowEnd(cur, seconds), attr)
             tails == WindowsFrom(recs, s, t, seconds, step, attr,
                                  NextStart(cur, step), last)
         IN {IF h = RAISED \/ tl.raised
             THEN [raised |-> TRUE, windows |-> <<>>]
             ELSE [raised |-> FALSE, windows |-> <<h>> \o tl.windows] :
                 h \in heads, tl \in tails}

analyze_time_windows(recs, s, t, seconds, step, attr) ==
    IF recs = <<>> THEN {[raised |-> FALSE, windows |-> <<>>]}
    ELSE IF \E i \in 1..Len(recs) : ~Parseable(recs[i].ts)
         THEN {[raised |-> TRUE, windows |-> <<>>]}
    ELSE WindowsFrom(recs, s, t, seconds, step, attr,
                     SetMin(Times(recs)), SetMax(Times(recs)))

\* a line of the log file: its csv row is empty, a comment, too short, or
\* the six fields of a record (whose timestamp is kept as it is written)
LineOf(rec) == [row |-> "record", rec |-> rec]

OtherLine(kind) == [row |-> kind, rec |-> Rec(0, "", "", 0)]

LiveLines ==
    {LineOf(Rec(0, "A", "B", 10)),
     LineOf(Rec(Sec(1), "B", "C", 10)),
     LineOf(Rec(Sec(1), "A", "C", 20)),
     LineOf(Rec(0 - 1, "A", "C", 10)),
     OtherLine("empty"), OtherLine("comment"), OtherLine("short")}

NONE == [none |-> TRUE]

\* parse_csv_line as it would be without the test for a leading "#"
parse_csv_line_no_comment_test(ln) ==
    CASE ln.row = "empty" -> NONE
      [] ln.row = "short" -> RAISED
      [] OTHER -> ln.rec

\* parse_csv_line: None for an empty row or a comment, raises when the row
\* does not unpack into six fields, else the record
parse_csv_line(ln) ==
    CASE ln.row \in {"empty", "comment"} -> NONE
      [] ln.row = "short" -> RAISED
      [] OTHER -> ln.rec

\* tail_loop, one line read: the record is appended under the lock; a line
\* that raises or gives None is passed over
TailLine ==
    /\ offset < MaxLines
    /\ \E ln \in LiveLines :
          LET rec == parse_csv_line(ln)
          IN /\ line' = ln
             /\ self_records' = IF rec = RAISED \/ rec = NONE THEN self_records
                                ELSE Append(self_records, rec)
    /\ offset' = offset + 1
    /\ UNCHANGED <<records, source, sink, window_seconds, step_seconds,
                   capacity_attr, top_k, pc, current, results, agg, mainVars>>
    /\ UNCHANGED <<latest_windows, latest_bottlenecks, latest_graph, apc, cycle,
                   records_copy, windows, top, projection, published_by, response>>

\* analyze_loop wakes up and copies the log under the lock; with no record
\* it goes back to sleep
TakeSnapshot ==
    /\ apc = "sleep"
    /\ cycle < MaxCycles
    /\ cycle' = cycle + 1
    /\ records_copy' = self_records
    /\ apc' = IF self_records = <<>> THEN "sleep" ELSE "analyze"
    /\ UNCHANGED <<records, source, sink, window_seconds, step_seconds,
                   capacity_attr, top_k, pc, current, results, agg, mainVars>>
    /\ UNCHANGED <<self_records, offset, line, latest_windows, latest_bottlenecks,
                   latest_graph, windows, top, projection, published_by, response>>

\* the try block: the analysis of the snapshot, or two empty lists when it
\* raised
RunAnalysis ==
    /\ apc = "analyze"
    /\ \E out \in analyze_time_windows(records_copy, source, sink, window_seconds,
                                       step_seconds, capacity_attr) :
          IF out.raised
          THEN windows' = <<>> /\ top' = <<>>
          ELSE /\ windows' = out.windows
               /\ top' = aggregate_bottlenecks(out.windows, LiveTopK)
    /\ apc' = "publish"
    /\ UNCHANGED <<records, source, sink, window_seconds, step_seconds,
                   capacity_attr, top_k, pc, current, results, agg, mainVars>>
    /\ UNCHANGED <<self_records, offset, line, latest_windows, latest_bottlenecks,
                   latest_graph, cycle, records_copy, projection, published_by,
                   response>>

\* first lock block: latest_windows and latest_bottlenecks
PublishWindows ==
    /\ apc = "publish"
    /\ latest_windows' = windows
    /\ latest_bottlenecks' = top
    /\ published_by' = [published_by EXCEPT !.windows = cycle, !.bottlenecks = cycle]
    /\ apc' = IF windows # <<>> THEN "project" ELSE "sleep"
    /\ UNCHANGED <<records, source, sink, window_seconds, step_seconds,
                   capacity_attr, top_k, pc, current, results, agg, mainVars>>
    /\ UNCHANGED <<self_records, offset, line, latest_graph, cycle, records_copy,
                   windows, top, projection, response>>

\* in_range(r): the timestamp parses and lies in the last window
InRange(r, start, end) ==
    Parseable(r.ts) /\ start <= parse_iso_z(r.ts) /\ parse_iso_z(r.ts) <= end

\* the dict {"nodes": ..., "edges": ...}: a node with its load (its size and
\* colour are drawn from the load), an edge with its average latency as
\* label and its colour
GraphDict(G, highlighted) ==
    [nodes |-> [i \in 1..Len(G.nodes) |->
                   [id |-> G.nodes[i], load |-> G.load[G.nodes[i]]]],
     edges |-> [i \in 1..Len(G.edges) |->
                   [from  |-> G.edges[i][1],
                    to    |-> G.edges[i][2],
                    label |-> G.avg_latency[G.edges[i]],
                    color |-> IF G.edges[i] \in highlighted THEN "red" ELSE "black"]]]

\* the graph of the last window's records with the first top edges in red
ProjectGraph ==
    /\ apc = "project"
    /\ LET last_window == windows[Len(windows)]
           window_recs == SelectSeq(records_copy,
                              LAMBDA r : InRange(r, last_window.start, last_window.end))
           shown       == PySlice(top, HighlightCount)
           highlighted == {shown[i][1] : i \in 1..Len(shown)}
       IN projection' = <<GraphDict(build_graph(window_recs), highlighted)>>
    /\ apc' = "publish_graph"
    /\ UNCHANGED <<records, source, sink, window_seconds, step_seconds,
                   capacity_attr, top_k, pc, current, results, agg, mainVars>>
    /\ UNCHANGED <<self_records, offset, line, latest_windows, latest_bottlenecks,
                   latest_graph, cycle, records_copy, windows, top, published_by,
                   response>>

\* second lock block: latest_graph
PublishGraph ==
    /\ apc = "publish_graph"
    /\ latest_graph' = projection
    /\ published_by' = [published_by EXCEPT !.graph = cycle]
    /\ apc' = "sleep"
    /\ UNCHANGED <<records, source, sink, window_seconds, step_seconds,
                   capacity_attr, top_k, pc, current, results, agg, mainVars>>
    /\ UNCHANGED <<self_records, offset, line, latest_windows, latest_bottlenecks,
                   cycle, records_copy, windows, top, projection, response>>

\* GET /alerts
alerts ==
    /\ response' = [route  |-> "/alerts",
                    status |-> 200,
                    body   |-> [bottlenecks |-> latest_bottlenecks,
                                windows     |-> Len(latest_windows)]]
    /\ UNCHANGED <<records, source, sink, window_seconds, step_seconds,
                   capacity_attr, top_k, pc, current, results, agg, mainVars>>
    /\ UNCHANGED <<self_records, offset, line, latest_windows, latest_bottlenecks,
                   latest_graph, apc, cycle, records_copy, windows, top,
                   projection, published_by>>

EmptyGraph == [nodes |-> <<>>, edges |-> <<>>]

\* GET /graph-data
graph_data ==
    /\ response' = IF latest_graph = <<>>
                   THEN [route |-> "/graph-data", status |-> 204, body |-> EmptyGraph]
                   ELSE [route |-> "/graph-data", status |-> 200,
                         body |-> latest_graph[1]]
    /\ UNCHANGED <<records, source, sink, window_seconds, step_seconds,
                   capacity_attr, top_k, pc, current, results, agg, mainVars>>
    /\ UNCHANGED <<self_records, offset, line, latest_windows, latest_bottlenecks,
                   latest_graph, apc, cycle, records_copy, windows, top,
                   projection, published_by>>

\* GET /graph-agg: the graph of a copy of the whole log
graph_agg ==
    /\ response' = IF self_records = <<>>
                   THEN [route |-> "/graph-agg", status |-> 204, body |-> EmptyGraph]
                   ELSE [route |-> "/graph-agg", status |-> 200,
                         body |-> GraphDict(build_graph(self_records), {})]
    /\ UNCHANGED <<records, source, sink, window_seconds, step_seconds,
                   capacity_attr, top_k, pc, current, results, agg, mainVars>>
    /\ UNCHANGED <<self_records, offset, line, latest_windows, latest_bottlenecks,
                   latest_graph, apc, cycle, records_copy, windows, top,
                   projection, published_by>>

\* the server is started with --source A --sink C, a window of two seconds
\* and a step of one
InitLive ==
    /\ source = "A"
    /\ sink = "C"
    /\ window_seconds = 2
    /\ step_seconds = 1
    /\ capacity_attr = "capacity"
    /\ top_k = LiveTopK
    /\ records = <<>>
    /\ pc = "live"
    /\ current = 0
    /\ results = <<>>
    /\ agg = <<>>
    /\ LiveConstructed
    /\ MainNotRun

NextLive ==
    \/ TailLine
    \/ TakeSnapshot
    \/ RunAnalysis
    \/ PublishWindows
    \/ ProjectGraph
    \/ PublishGraph
    \/ alerts
    \/ graph_data
    \/ graph_agg

SpecLive == InitLive /\ [][NextLive]_vars

-----------------------------------------------------------------------------
(* What the properties below speak of.                                     *)

\* the window's dict was computed by the solver (it is no sentinel)
Computed(r) == "cut_value" \in DOMAIN r

\* the records whose timestamp lies in the closed interval [a, b]
Within(recs, a, b) == SelectSeq(recs, LAMBDA r : a <= r.ts /\ r.ts <= b)

\* the graph of the window a dict reports on
WindowGraph(r) == build_graph(Within(records, r.start, r.end))

\* the edges of G that lead from S to the other nodes
Crossing(G, S) == {e \in Range(G.edges) : e[1] \in S /\ e[2] \notin S}

\* the capacities of the edges of a list, added up
ListCapacity(G, attr, edges) == RatSum([i \in 1..Len(edges) |-> G[attr][edges[i]]])

\* the capacity of the cut whose source side is S
CutCapacity(G, attr, S) ==
    LET E == Crossing(G, S)
        pos == SelectSeq(G.edges, LAMBDA e : e \in E)
    IN ListCapacity(G, attr, pos)

\* the source sides of the cuts between s and t
SourceSides(G, s, t) == {S \in SUBSET Range(G.nodes) : s \in S /\ t \notin S}

\* S is the source side of a cut of least capacity
IsMinimumCut(G, attr, s, t, S) ==
    /\ S \in SourceSides(G, s, t)
    /\ \A S2 \in SourceSides(G, s, t) :
          IF HasCapacity(attr)
          THEN RatLeq(CutCapacity(G, attr, S), CutCapacity(G, attr, S2))
          ELSE Crossing(G, S) = {}

NoRepeats(seq) == Cardinality(Range(seq)) = Len(seq)

AllParseable == \A i \in 1..Len(records) : Parseable(records[i].ts)

-----------------------------------------------------------------------------
(* C1: in every window that is not a sentinel, the flow value max_flow     *)
(* returned equals the cut value min_cut returned for the same capacity    *)
(* attribute, whichever augmenting paths the two runs of the solver took.  *)
Thm_C1_FlowEqualsCut ==
    \A i \in 1..Len(results) :
        Computed(results[i]) => results[i].flow = results[i].cut_value

\* a finished run with a window in which source and sink are joined by a path
\* and whose capacities are the latency-derived ones
Wit_C1_PositiveFlow ==
    /\ pc = "done"
    /\ capacity_attr = "capacity_latency"
    /\ \E i \in 1..Len(results) :
          Computed(results[i]) /\ RatLess(Zero, results[i].flow)

(* C2: in every window that is not a sentinel, min_cut lists exactly the   *)
(* edges of the window's graph that lead from the source side S to the     *)
(* sink side T of a minimum cut, each once; source is in S, sink in T, and *)
(* the capacities of the listed edges add up to cut_value.                 *)
Thm_C2_CutEdgesExact ==
    \A i \in 1..Len(results) :
        Computed(results[i]) =>
            LET r == results[i]
                G == WindowGraph(r)
            IN /\ NoRepeats(r.min_cut)
               /\ \E S \in SourceSides(G, source, sink) :
                     /\ Range(r.min_cut) = Crossing(G, S)
                     /\ IsMinimumCut(G, capacity_attr, source, sink, S)
               /\ IF HasCapacity(capacity_attr)
                  THEN ListCapacity(G, capacity_attr, r.min_cut) = r.cut_value
                  ELSE r.min_cut = <<>> /\ r.cut_value = Zero

\* a window whose minimum cut holds two edges
Wit_C2_TwoCutEdges ==
    /\ pc = "done"
    /\ \E i \in 1..Len(results) :
          Computed(results[i]) /\ Len(results[i].min_cut) = 2

\* the source sides of the minimum cuts between s and t
MinimumCuts(G, attr, s, t) ==
    {S \in SourceSides(G, s, t) : IsMinimumCut(G, attr, s, t, S)}

\* the source side of the minimum cut nearest the source: the nodes the source
\* reaches in the residual network of a maximum flow
NearestSource(G, attr, s, t) ==
    {n \in Range(G.nodes) : \A S \in MinimumCuts(G, attr, s, t) : n \in S}

\* the source side of the minimum cut nearest the sink: all nodes but those
\* from which the sink is reached in the residual network of a maximum flow
NearestSink(G, attr, s, t) ==
    {n \in Range(G.nodes) : \E S \in MinimumCuts(G, attr, s, t) : n \in S}

\* the two-record log: A->B 10 ms at t0, B->C 20 ms one second later
TwoRecordLog == <<Rec(0, "A", "B", 10), Rec(Sec(1), "B", "C", 20)>>

\* a finished run on the two-record log from A to C with the default capacity
\* and a first window that holds both records
TwoRecordRun ==
    /\ pc = "done"
    /\ records = TwoRecordLog
    /\ source = "A" /\ sink = "C"
    /\ capacity_attr = "capacity"
    /\ window_seconds >= 1

(* C3, as the specification has it: on the two-record log the flow is the  *)
(* throughput-derived capacity of the bottleneck edge and the cut is       *)
(* {A} | {B, C} with cut edges [(A, B)]; in every computed window the      *)
(* source side of the reported cut is the set of nodes the source reaches  *)
(* in the residual network.                                                *)
Cex_C3_SourceSideCut ==
    /\ TwoRecordRun =>
          /\ results[1].flow = WindowGraph(results[1]).capacity_throughput[<<"A", "B">>]
          /\ results[1].min_cut = << <<"A", "B">> >>
    /\ \A i \in 1..Len(results) :
          Computed(results[i]) =>
              LET G == WindowGraph(results[i])
              IN Range(results[i].min_cut) =
                     Crossing(G, NearestSource(G, capacity_attr, source, sink))

(* C3, amended: on the two-record log the flow is the throughput-derived   *)
(* capacity of the bottleneck edge and the reported cut is {A, B} | {C}    *)
(* with cut edges [(B, C)]; in every computed window the sink side of the  *)
(* reported cut is the set of nodes from which the sink is reached in the  *)
(* residual network (the minimum cut nearest the sink).                    *)
Thm_C3_SinkSideCut ==
    /\ TwoRecordRun =>
          /\ results[1].flow = WindowGraph(results[1]).capacity_throughput[<<"A", "B">>]
          /\ results[1].flow = WindowGraph(results[1]).capacity_throughput[<<"B", "C">>]
          /\ results[1].min_cut = << <<"B", "C">> >>
    /\ \A i \in 1..Len(results) :
          Computed(results[i]) =>
              LET G == WindowGraph(results[i])
              IN Range(results[i].min_cut) =
                     Crossing(G, NearestSink(G, capacity_attr, source, sink))

\* the run on the two-record log has finished and its first window was computed
Wit_C3_TwoRecordRun == TwoRecordRun /\ Computed(results[1])

\* the solver fails on the window's graph, or source or sink is not in it
WindowFails(r) ==
    LET G == WindowGraph(r)
    IN \/ source \notin Range(G.nodes)
       \/ sink \notin Range(G.nodes)
       \/ source = sink
       \/ /\ ~HasCapacity(capacity_attr)
          /\ sink \in Closure({source}, {e \in Range(G.edges) : e[1] # e[2]})

FirstTime == SetMin({records[i].ts : i \in 1..Len(records)})

LastTime == SetMax({records[i].ts : i \in 1..Len(records)})

(* C4: when every timestamp parses, analyze_time_windows does not raise,   *)
(* whatever source and sink are: every window the generator yielded has    *)
(* exactly one dict, the loop runs until the generator is exhausted, a     *)
(* window without source or sink or on which the solver fails has the      *)
(* sentinel (flow 0, empty min_cut), and every other window its computed   *)
(* dict.                                                                   *)
Thm_C4_WindowFailureContained ==
    AllParseable =>
        /\ pc # "raised"
        /\ records # <<>> /\ pc # "start" =>
              current = FirstTime + Len(results) * step_seconds * TicksPerSecond
        /\ records # <<>> /\ pc \in {"aggregate", "done"} => current > LastTime
        /\ \A i \in 1..Len(results) :
              IF WindowFails(results[i])
              THEN results[i] = [start |-> results[i].start, end |-> results[i].end,
                                 flow |-> Zero, min_cut |-> <<>>]
              ELSE Computed(results[i])

\* a finished run in which the solver raised on one window (an unbounded path)
\* and another window was computed
Wit_C4_SolverRaisedInOneWindow ==
    /\ pc = "done"
    /\ AllParseable
    /\ capacity_attr = "weight"
    /\ \E i, j \in 1..Len(results) :
          /\ ~Computed(results[i])
          /\ source \in Range(WindowGraph(results[i]).nodes)
          /\ sink \in Range(WindowGraph(results[i]).nodes)
          /\ Computed(results[j])

(* C5: records whose timestamps span T seconds, analysed with a step of    *)
(* S > 0 seconds and any window length, give floor(T / S) + 1 windows and  *)
(* as many results.                                                        *)
Thm_C5_WindowCount ==
    (/\ pc \in {"aggregate", "done"}
     /\ AllParseable
     /\ records # <<>>
     /\ step_seconds > 0) =>
        Len(results) =
            ((LastTime - FirstTime) \div (step_seconds * TicksPerSecond)) + 1

\* a finished run over a span that the step divides, with three windows
Wit_C5_ThreeWindows ==
    /\ pc = "done"
    /\ AllParseable
    /\ Len(results) = 3
    /\ LastTime - FirstTime = 2 * step_seconds * TicksPerSecond

(* C6: the first window starts at the least timestamp; window k (from 0)   *)
(* is [min + k*step, min + k*step + windowSeconds], the last one not cut   *)
(* back to the greatest timestamp; a window is produced iff its start is   *)
(* at most the greatest timestamp; the results are in strictly increasing  *)
(* order of start, one per window; no record gives no result.              *)
Thm_C6_WindowSequence ==
    AllParseable =>
        /\ \A k \in 1..Len(results) :
              /\ results[k].start = FirstTime + (k - 1) * step_seconds * TicksPerSecond
              /\ results[k].end = results[k].start + window_seconds * TicksPerSecond
        /\ pc \in {"aggregate", "done"} =>
              \A j, k \in 1..Len(results) :
                  j < k => results[j].start < results[k].start
        /\ records # <<>> /\ pc \in {"aggregate", "done"} =>
              \A k \in 0..Len(results) :
                  (FirstTime + k * step_seconds * TicksPerSecond <= LastTime)
                      <=> (k < Len(results))
        /\ records = <<>> /\ pc \in {"aggregate", "done"} => results = <<>>

\* a finished run of several windows whose last window ends after the greatest
\* timestamp
Wit_C6_LastWindowNotClipped ==
    /\ pc = "done"
    /\ AllParseable
    /\ Len(results) >= 2
    /\ results[Len(results)].end > LastTime

\* the number of windows with a record in them whose min_cut holds e
NonEmptyWindowsWith(e) ==
    Cardinality({i \in 1..Len(results) :
                   /\ Within(records, results[i].start, results[i].end) # <<>>
                   /\ e \in Range(results[i].min_cut)})

(* C7: a window with no timestamp in [start, end] has flow 0 and an empty  *)
(* min_cut, and adds nothing to any edge's count in aggregate_bottlenecks: *)
(* each reported count is the number of windows holding records whose      *)
(* min_cut has the edge.                                                   *)
Thm_C7_EmptyWindow ==
    AllParseable =>
        /\ \A i \in 1..Len(results) :
              Within(records, results[i].start, results[i].end) = <<>> =>
                  /\ results[i].flow = Zero
                  /\ results[i].min_cut = <<>>
        /\ pc = "done" =>
              \A k \in 1..Len(agg) : agg[k][2] = NonEmptyWindowsWith(agg[k][1])

\* a finished run with a window that holds no record, after a window whose cut
\* was counted
Wit_C7_EmptyWindowAfterCut ==
    /\ pc = "done"
    /\ AllParseable
    /\ agg # <<>>
    /\ \E i, j \in 1..Len(results) :
          /\ i < j
          /\ results[i].min_cut # <<>>
          /\ Within(records, results[j].start, results[j].end) = <<>>

\* the number of windows whose min_cut holds e
WindowsWith(e) ==
    Cardinality({i \in 1..Len(results) : e \in Range(results[i].min_cut)})

(* C8: the count aggregate_bottlenecks reports for an edge is the number   *)
(* of windows whose min_cut holds the edge; no min_cut lists an edge       *)
(* twice; when windows 1 and 2 report (X, Y) and window 3 reports no edge, *)
(* top_k = 1 gives [((X, Y), 2)].                                          *)
Thm_C8_CountIsWindows ==
    /\ \A i \in 1..Len(results) : NoRepeats(results[i].min_cut)
    /\ pc = "done" =>
          /\ \A k \in 1..Len(agg) : agg[k][2] = WindowsWith(agg[k][1])
          /\ (/\ Len(results) = 3
              /\ top_k = 1
              /\ results[1].min_cut = << <<"A", "C">> >>
              /\ results[2].min_cut = << <<"A", "C">> >>
              /\ results[3].min_cut = <<>>) =>
                 agg = << << <<"A", "C">>, 2 >> >>

\* windows 1 and 2 report (A, C), window 3 reports no edge, and top_k = 1
Wit_C8_TwoOfThreeWindows ==
    /\ pc = "done"
    /\ top_k = 1
    /\ Len(results) = 3
    /\ results[1].min_cut = << <<"A", "C">> >>
    /\ results[2].min_cut = << <<"A", "C">> >>
    /\ results[3].min_cut = <<>>
    /\ Computed(results[3])

\* the place at which e is first met going through the windows in order
FirstSeen(e) ==
    LET all == Flatten([i \in 1..Len(results) |-> results[i].min_cut])
    IN SetMin({i \in 1..Len(all) : all[i] = e})

DistinctCutEdges == UNION {Range(results[i].min_cut) : i \in 1..Len(results)}

\* e comes before f in the ranking
RankedBefore(e, f) ==
    \/ WindowsWith(e) > WindowsWith(f)
    \/ WindowsWith(e) = WindowsWith(f) /\ FirstSeen(e) < FirstSeen(f)

Smaller(a, b) == IF a < b THEN a ELSE b

(* C9: aggregate_bottlenecks(window_results, top_k) is the first           *)
(* min(top_k, number of distinct cut edges) entries of the ranking of all  *)
(* distinct cut edges by count, largest first, edges of equal count in the *)
(* order in which they were first met; so counts never increase along the  *)
(* output.                                                                 *)
Thm_C9_Ranking ==
    pc = "done" =>
        /\ Len(agg) = Smaller(top_k, Cardinality(DistinctCutEdges))
        /\ \A k \in 1..Len(agg) :
              /\ agg[k][1] \in DistinctCutEdges
              /\ agg[k][2] = WindowsWith(agg[k][1])
        /\ \A j, k \in 1..Len(agg) :
              j < k => /\ RankedBefore(agg[j][1], agg[k][1])
                       /\ agg[j][2] >= agg[k][2]
        /\ \A e \in DistinctCutEdges :
              e \notin {agg[k][1] : k \in 1..Len(agg)} =>
                  \A k \in 1..Len(agg) : RankedBefore(agg[k][1], e)

\* the output was cut short, its first two edges have equal counts, and the
\* edge met first of all is not the first of the output
Wit_C9_TieAndTruncation ==
    /\ pc = "done"
    /\ Len(agg) >= 2
    /\ agg[1][2] = agg[2][2]
    /\ Len(agg) < Cardinality(DistinctCutEdges)
    /\ FirstSeen(agg[1][1]) # 1

(* C10: what analyze_loop publishes is published as one: at every instant  *)
(* latest_windows, latest_bottlenecks and latest_graph were all assigned   *)
(* by the same analysis cycle (or none of them has been assigned yet).     *)
Cex_C10_PublishedAsOne ==
    /\ published_by.windows = published_by.bottlenecks
    /\ published_by.bottlenecks = published_by.graph

\* the cycle in progress has reached its first lock block after the analysis
\* of its snapshot raised
CycleFailed ==
    /\ apc = "publish"
    /\ \A out \in analyze_time_windows(records_copy, source, sink, window_seconds,
                                       step_seconds, capacity_attr) : out.raised

(* C11: a failed analysis cycle is skipped: no step taken while the cycle  *)
(* that failed is at its first lock block changes latest_windows,          *)
(* latest_bottlenecks or latest_graph, so readers go on seeing what the    *)
(* last successful cycle published.                                        *)
Cex_C11_FailedCycleSkipped ==
    [][CycleFailed =>
          /\ latest_windows' = latest_windows
          /\ latest_bottlenecks' = latest_bottlenecks
          /\ latest_graph' = latest_graph]_vars

\* the three published fields
Published == <<latest_windows, latest_bottlenecks, latest_graph>>

(* C12: in every step of the live server                                   *)
(*  - the shared log changes only by the ingestion task appending one      *)
(*    record at its end, and the line it read decides it: a blank line, a  *)
(*    comment and a line that does not parse leave the log as it is, a     *)
(*    record line appends its record;                                      *)
(*  - a step of the analysis task or of an HTTP handler leaves the log     *)
(*    unchanged, and the analysis task's snapshot is a copy of the log     *)
(*    taken when the cycle starts;                                         *)
(*  - the published fields change only in the analysis task's two lock     *)
(*    blocks.                                                              *)
Thm_C12_SharedStateDiscipline ==
    [][/\ self_records' # self_records =>
             /\ Len(self_records') = Len(self_records) + 1
             /\ SubSeq(self_records', 1, Len(self_records)) = self_records
             /\ offset' = offset + 1
       /\ offset' # offset =>
             /\ offset' = offset + 1
             /\ IF line'.row = "record"
                THEN self_records' = Append(self_records, line'.rec)
                ELSE self_records' = self_records
             /\ <<apc, cycle, records_copy, response>>'
                    = <<apc, cycle, records_copy, response>>
       /\ (apc' # apc \/ cycle' # cycle \/ response' # response) =>
             self_records' = self_records
       /\ records_copy' # records_copy =>
             apc = "sleep" /\ records_copy' = self_records
       /\ Published' # Published =>
             /\ apc \in {"publish", "publish_graph"}
             /\ apc' # apc
             /\ <<offset, response>>' = <<offset, response>>]_vars

\* the log holds a record after a line was passed over, a cycle has published
\* windows and a graph, and /graph-agg has answered with the graph of the log
Wit_C12_AllTasksActed ==
    /\ Len(self_records) >= 1
    /\ offset > Len(self_records)
    /\ line.row \in {"empty", "comment", "short"}
    /\ latest_windows # <<>>
    /\ latest_graph # <<>>
    /\ response.route = "/graph-agg"
    /\ response.status = 200

\* the services that occur in a log
Services(recs) ==
    {recs[i].src : i \in 1..Len(recs)} \cup {recs[i].dst : i \in 1..Len(recs)}

(* C13: a batch run on a log in which the requested source or sink does    *)
(* not occur ends with a failure: it never reaches the end of the pipeline *)
(* (the aggregation done, the output document written).                    *)
Cex_C13_AbsentNodeIsFatal ==
    (pc = "done" /\ records # <<>>) =>
        source \in Services(records) /\ sink \in Services(records)

\* the nodes of the whole-log graph, and what the source reaches in it
MainNodes == Range(main_G.nodes)

SourceClosure == Closure({source}, Range(main_G.edges))

\* source and sink are nodes and no directed path leads from one to the other
NoPath ==
    /\ source \in MainNodes
    /\ sink \in MainNodes
    /\ sink \notin SourceClosure

\* the nodes from which the sink is reached along edges of positive capacity
ReachSink ==
    Closure({sink}, {<<e[2], e[1]>> : e \in {f \in Range(main_G.edges) :
                                              RatLess(Zero, main_G[capacity_attr][f])}})

NoPositiveCutEdge ==
    \A i \in 1..Len(main_bottlenecks) :
        RatLeq(main_G[capacity_attr][main_bottlenecks[i]], Zero)

(* C14 as stated: without a directed path from source to sink the flow and *)
(* the cut value are 0, the source side is exactly what the source         *)
(* reaches, the other side is the rest, and no reported cut edge has a     *)
(* positive capacity.                                                      *)
Cex_C14_SourceClosure ==
    (pc = "main_done" /\ NoPath) =>
        /\ main_flow_value = Zero
        /\ main_cut.cut_value = Zero
        /\ main_cut.S = SourceClosure
        /\ main_cut.T = MainNodes \ SourceClosure
        /\ NoPositiveCutEdge

(* C14 as amended: without a directed path from source to sink the flow    *)
(* and the cut value are 0, the sink side is exactly the set of nodes from *)
(* which the sink is reached along edges of positive capacity, the source  *)
(* side is every other node (what the source reaches among them), and no   *)
(* reported cut edge has a positive capacity.                              *)
Thm_C14_SinkSideWithoutPath ==
    (pc = "main_done" /\ NoPath) =>
        /\ main_flow_value = Zero
        /\ main_cut.cut_value = Zero
        /\ main_cut.T = ReachSink
        /\ main_cut.S = MainNodes \ ReachSink
        /\ SourceClosure \subseteq main_cut.S
        /\ NoPositiveCutEdge

\* no path, a node on the source side the source does not reach, and an edge
\* of capacity zero reported as cut edge
Wit_C14_NoPathWiderSourceSide ==
    /\ pc = "main_done"
    /\ NoPath
    /\ main_cut.S # SourceClosure
    /\ main_bottlenecks # <<>>

\* the graph of the whole log has been built
Built == pc \in {"built", "flowed", "cut", "main_done", "main_raised"}

\* the number of records of the log that are calls of e
Calls_of(e) == Cardinality({i \in 1..Len(records) : <<records[i].src, records[i].dst>> = e})

\* ticks between the earliest and the latest timestamp of the log that parses
\* (0 when none does)
SpanTicks ==
    LET ts == {records[i].ts : i \in {j \in 1..Len(records) : records[j].ts >= 0}}
    IN IF ts = {} THEN 0 ELSE SetMax(ts) - SetMin(ts)

(* C15 as stated: the span that divides the call counts is never below 1.0 *)
(* second, so the throughput of an edge never exceeds its call count.      *)
Cex_C15_SpanFloor ==
    Built => \A e \in Range(main_G.edges) :
                 RatLeq(main_G.throughput[e], Rat(Calls_of(e), 1))

(* C15 as amended: the span is the latest minus the earliest timestamp     *)
(* that parses; 1.0 second stands in for it only when it is zero (one      *)
(* timestamp, or all equal) or when no timestamp parses, and a span        *)
(* between 0 and 1 second is used as it is.  The throughput of an edge is  *)
(* its call count divided by that span: it is positive, and it does not    *)
(* exceed the call count unless the span is shorter than a second.         *)
Thm_C15_SpanFallback ==
    Built => \A e \in Range(main_G.edges) :
                 /\ main_G.throughput[e] =
                        IF SpanTicks > 0
                        THEN Rat(Calls_of(e) * TicksPerSecond, SpanTicks)
                        ELSE Rat(Calls_of(e), 1)
                 /\ RatLess(Zero, main_G.throughput[e])
                 /\ (SpanTicks = 0 \/ SpanTicks >= TicksPerSecond) =>
                        RatLeq(main_G.throughput[e], Rat(Calls_of(e), 1))

\* timestamps less than a second apart: an edge's throughput is above its
\* call count
Wit_C15_SubSecondSpan ==
    /\ Built
    /\ SpanTicks > 0
    /\ SpanTicks < TicksPerSecond
    /\ \E e \in Range(main_G.edges) :
          RatLess(Rat(Calls_of(e), 1), main_G.throughput[e])

\* the sum of the latencies of the log's calls of e
LatencyTotal(e) ==
    SumOver({i \in 1..Len(records) : <<records[i].src, records[i].dst>> = e},
            [i \in 1..Len(records) |-> records[i].lat])

\* 1 / average latency of e, or 0 when the average is not positive
LatencyCapacity(e) ==
    IF LatencyTotal(e) > 0 THEN Rat(Calls_of(e), LatencyTotal(e)) ELSE Zero

(* C16: on every edge of the graph build_graph returns, capacity_latency   *)
(* is 1 / average latency (0 when the average is not positive),            *)
(* capacity_throughput equals throughput, and capacity equals throughput   *)
(* when throughput > 0 and capacity_latency otherwise.                     *)
Thm_C16_DefaultCapacity ==
    Built => \A e \in Range(main_G.edges) :
                 /\ main_G.capacity_latency[e] = LatencyCapacity(e)
                 /\ main_G.capacity_throughput[e] = main_G.throughput[e]
                 /\ main_G.capacity[e] =
                        IF RatLess(Zero, main_G.throughput[e])
                        THEN main_G.throughput[e]
                        ELSE main_G.capacity_latency[e]

\* an edge whose two derived capacities differ and whose default is the
\* throughput, and an edge of average latency zero
Wit_C16_ThroughputPreferred ==
    /\ Built
    /\ \E e \in Range(main_G.edges) :
          /\ RatLess(Zero, main_G.capacity_latency[e])
          /\ main_G.capacity_latency[e] # main_G.throughput[e]
          /\ main_G.capacity[e] = main_G.throughput[e]
    /\ \E e \in Range(main_G.edges) :
          /\ main_G.avg_latency[e] = Zero
          /\ main_G.capacity_latency[e] = Zero

\* the sum of the rationals f[x], x in S
RECURSIVE RatSumOver(_, _)
RatSumOver(S, f) ==
    IF S = {} THEN Zero
    ELSE LET a == CHOOSE b \in S : TRUE IN RatAdd(f[a], RatSumOver(S \ {a}, f))

EdgesInto(n) == {e \in Range(main_G.edges) : e[2] = n}

EdgesOutOf(n) == {e \in Range(main_G.edges) : e[1] = n}

(* C17: in the graph build_graph returns, for every node n                 *)
(* in_throughput(n) is the sum of the throughputs of the edges into n,     *)
(* out_throughput(n) the sum over the edges out of n (an edge from n to n  *)
(* is in both), load(n) = in_throughput(n) + out_throughput(n), and the    *)
(* out_throughputs of all nodes add up to the in_throughputs of all nodes. *)
Thm_C17_NodeLoad ==
    Built =>
        /\ \A n \in MainNodes :
              /\ main_G.in_throughput[n] = RatSumOver(EdgesInto(n), main_G.throughput)
              /\ main_G.out_throughput[n] = RatSumOver(EdgesOutOf(n), main_G.throughput)
              /\ main_G.load[n] = RatAdd(main_G.in_throughput[n], main_G.out_throughput[n])
        /\ RatSumOver(MainNodes, main_G.out_throughput)
               = RatSumOver(MainNodes, main_G.in_throughput)

\* a service that calls itself and another one: the call to itself is in its
\* in_throughput and in its out_throughput
Wit_C17_SelfLoop ==
    /\ Built
    /\ \E n \in MainNodes :
          /\ <<n, n>> \in Range(main_G.edges)
          /\ Cardinality(EdgesOutOf(n)) >= 2
          /\ main_G.in_throughput[n] = main_G.throughput[<<n, n>>]
          /\ RatLess(main_G.in_throughput[n], main_G.out_throughput[n])

\* the places in the log of the calls of e, and the k-th of them
PlacesOf(e) == {i \in 1..Len(records) : <<records[i].src, records[i].dst>> = e}

KthPlace(e, k) ==
    CHOOSE i \in PlacesOf(e) : Cardinality({j \in PlacesOf(e) : j <= i}) = k

(* C18: the graph build_graph returns has an edge (s, d) exactly when some *)
(* record has src_service = s and dst_service = d, and only one, whatever  *)
(* the endpoints; the edge's count is the number of those records, its     *)
(* latency list holds their latencies in record order, and the counts of   *)
(* all edges add up to the number of records.                              *)
Thm_C18_EdgePerPair ==
    Built =>
        /\ Range(main_G.edges) = {<<records[i].src, records[i].dst>> : i \in 1..Len(records)}
        /\ NoRepeats(main_G.edges)
        /\ \A e \in Range(main_G.edges) :
              /\ main_G.count[e] = Cardinality(PlacesOf(e))
              /\ main_G.times[e] =
                     [k \in 1..Cardinality(PlacesOf(e)) |-> records[KthPlace(e, k)].lat]
        /\ SumOver(Range(main_G.edges), main_G.count) = Len(records)

\* three calls of one pair of services, on different endpoints and of
\* different latencies, with a call of another pair between them
Wit_C18_SamePairOtherEndpoints ==
    /\ Built
    /\ \E e \in Range(main_G.edges) :
          /\ main_G.count[e] = 3
          /\ main_G.times[e][1] # main_G.times[e][2]
          /\ KthPlace(e, 3) > 3
          /\ \E i, j \in PlacesOf(e) :
                /\ "src_endpoint" \in DOMAIN records[i]
                /\ records[i].src_endpoint # records[j].src_endpoint

(* C19: the batch pipeline runs to completion.  The loop of                *)
(* sliding_windows ends when current has passed the latest timestamp, so   *)
(* it ends only if every window it yields moves current forward: each pass *)
(* that appends a window's dict leaves current later than it was.          *)
Cex_C19_EveryWindowAdvances ==
    [][(pc = "loop" /\ results' # results) => current' > current]_vars

\* record i is a call from the source straight to the sink that carries flow
\* whenever the analysis of a window sees it
DirectCall(i) ==
    /\ records[i].src = source
    /\ records[i].dst = sink
    /\ source # sink
    /\ HasCapacity(capacity_attr)
    /\ records[i].lat > 0

InWindow(i, r) == r.start <= records[i].ts /\ records[i].ts <= r.end

(* C20: when analyze_time_windows has returned for a non-empty log whose   *)
(* timestamps parse, with 0 < step_seconds <= window_seconds, every        *)
(* record's timestamp lies in [start, end] of at least one window; and a   *)
(* record in [start, end] of a window, its end included, is analysed with  *)
(* that window: a call from the source straight to the sink gives the      *)
(* window a positive flow.                                                 *)
Thm_C20_WindowCoverage ==
    /\ (pc \in {"aggregate", "done"} /\ records # <<>>
            /\ 0 < step_seconds /\ step_seconds <= window_seconds) =>
           \A i \in 1..Len(records) :
               \E k \in 1..Len(results) : InWindow(i, results[k])
    /\ AllParseable =>
           \A k \in 1..Len(results) : \A i \in 1..Len(records) :
               (InWindow(i, results[k]) /\ DirectCall(i)) =>
                   RatLess(Zero, results[k].flow)

\* a finished run of two windows or more with the step no longer than the
\* window, in which a window has a positive flow that only a call at the very
\* end of the window can give it
Wit_C20_RecordAtWindowEnd ==
    /\ pc = "done"
    /\ 0 < step_seconds
    /\ step_seconds <= window_seconds
    /\ Len(results) >= 2
    /\ \E k \in 1..Len(results) :
          /\ RatLess(Zero, results[k].flow)
          /\ \E i \in 1..Len(records) :
                records[i].ts = results[k].end /\ DirectCall(i)
          /\ \A i \in 1..Len(records) :
                (InWindow(i, results[k]) /\ records[i].ts < results[k].end) =>
                    records[i].dst # sink

=============================================================================
